---- MODULE Spec2Model ----
(***************************************************************************)
(* Model of the Copilot extension server: the request handler              *)
(* (handleCopilotRequest), the signature verifier with its key cache       *)
(* (verifySignature / fetchPublicKeys), the agentic loop (agentLoop), the  *)
(* stream collector (collectStream) and the tool dispatcher (executeTool). *)
(*                                                                         *)
(* Strings are sequences of symbols, so that concatenation is \o and the   *)
(* empty string is <<>>.  An optional field (undefined in the source) is   *)
(* None == <<>>, a present one is Some(s) == <<s>>.                        *)
(***************************************************************************)
EXTENDS Integers, Sequences, FiniteSets, TLC

\* ------------------------------------------------------------------ bounds
NumReqs == 2

MaxTime == 2

MaxChunk == 2

\* ------------------------------------------------------- program constants
MAX_ITERATIONS == 5

\* cache lifetime (60 * 60 * 1000 ms in the source), in clock ticks
TTL == 1

Reqs == 1..NumReqs

\* ------------------------------------------------------------ option values
None == <<>>

Some(s) == <<s>>

\* JavaScript truthiness of an optional string: defined and not ''
Truthy(o) == o # None /\ o[1] # <<>>

\* o ?? ''
OrEmpty(o) == IF o = None THEN <<>> ELSE o[1]

\* -------------------------------------------------- upstream event payloads
\* one element of delta.tool_calls
Frag(ix, id, nm, ar) == [index |-> ix, id |-> id, name |-> nm, arguments |-> ar]

\* a parsed record {choices:[{delta:{content?, tool_calls?}}]}
JChunk(content, tcs) == [kind |-> "chunk", content |-> content, tool_calls |-> tcs]

\* the JSON literal null
JNull == [kind |-> "null", content |-> None, tool_calls |-> <<>>]

\* an object without a usable choices[0]
JNoChoice == [kind |-> "nochoice", content |-> None, tool_calls |-> <<>>]

\* ------------------------------------------------------ upstream byte stream
\* The text of the response body is a sequence of elements: a newline, the
\* six characters 'data: ', a blank, the text '[DONE]', the serialisation of
\* a JSON value, or other text that is not JSON.
NL == [t |-> "nl", v |-> JNull]

DATA == [t |-> "data", v |-> JNull]

SP == [t |-> "sp", v |-> JNull]

DONEMARK == [t |-> "done", v |-> JNull]

JUNK == [t |-> "junk", v |-> JNull]

J(v) == [t |-> "json", v |-> v]

\* the record 'data: <json>\n'
Rec(v) == <<DATA, J(v), NL>>

\* ------------------------------------------------------------ client frames
\* sseAck(): data: {choices:[{delta:{role:'assistant'}}]}
sseAck == [f |-> "ack", content |-> <<>>]

\* sseText(text): data: {choices:[{delta:{content:text}}]}
sseText(text) == [f |-> "text", content |-> text]

\* sseDone(): data: [DONE]
sseDone == [f |-> "done", content |-> <<>>]

\* ------------------------------------------------------------ string helpers
RECURSIVE TrimLeft(_)
TrimLeft(s) == IF s # <<>> /\ s[1] = SP THEN TrimLeft(Tail(s)) ELSE s

RECURSIVE TrimRight(_)
TrimRight(s) ==
  IF s # <<>> /\ s[Len(s)] = SP THEN TrimRight(SubSeq(s, 1, Len(s) - 1)) ELSE s

\* String.prototype.trim
Trim(s) == TrimRight(TrimLeft(s))

\* position of the first newline of s, 0 when there is none
RECURSIVE FirstNL(_, _)
FirstNL(s, i) ==
  IF i > Len(s) THEN 0 ELSE IF s[i] = NL THEN i ELSE FirstNL(s, i + 1)

\* s.split('\n'): the pieces between newlines, the last piece being the text
\* after the last newline
RECURSIVE Split(_)
Split(s) ==
  LET i == FirstNL(s, 1)
  IN  IF i = 0 THEN <<s>>
      ELSE <<SubSeq(s, 1, i - 1)>> \o Split(SubSeq(s, i + 1, Len(s)))

\* position in the tool-call map (kept in insertion order) of index ix, or 0
RECURSIVE MapPos(_, _, _)
MapPos(m, ix, i) ==
  IF i > Len(m) THEN 0 ELSE IF m[i].index = ix THEN i ELSE MapPos(m, ix, i + 1)

\* ---------------------------------------------------------- stream collector
\* collectStream, lines 231-241: one fragment of delta.tool_calls merged into
\* the tool-call map m (a sequence in insertion order, as Map iterates)
\* (lines 232-238 set a new entry, lines 239-241 then append to the entry)
MergeFrag(m, tc) ==
  LET m1 == IF MapPos(m, tc.index, 1) = 0
            THEN Append(m, [index     |-> tc.index,
                            id        |-> OrEmpty(tc.id),
                            name      |-> OrEmpty(tc.name),
                            arguments |-> <<>>])
            ELSE m
  IN  [m1 EXCEPT ![MapPos(m1, tc.index, 1)] =
         [@ EXCEPT
            !.id        = IF Truthy(tc.id) THEN @ \o tc.id[1] ELSE @,
            !.name      = IF Truthy(tc.name) THEN @ \o tc.name[1] ELSE @,
            !.arguments = IF Truthy(tc.arguments) THEN @ \o tc.arguments[1] ELSE @]]

\* collectStream, line 230: for (const tc of delta.tool_calls); the map after
\* one fragment is the value m1 the next iteration starts from
RECURSIVE MergeFrags(_, _)
MergeFrags(m, tcs) ==
  IF tcs = <<>> THEN m
  ELSE CHOOSE m2 \in {MergeFrags(m1, Tail(tcs)) : m1 \in {MergeFrag(m, Head(tcs))}} : TRUE

\* JSON.parse of the text of a record: defined for the serialisation of one
\* JSON value, a SyntaxError for anything else
IsJSON(data) == Len(data) = 1 /\ data[1].t = "json"

\* a collector that takes the end marker for the end of the message and
\* starts its tool-call map afresh
ProcessLineDoneResets(cs, line) ==
  IF cs.threw THEN cs
  ELSE IF line = <<>> \/ line[1] # DATA THEN cs
  ELSE LET data == Trim(Tail(line))
       IN  IF data = <<DONEMARK>> THEN [cs EXCEPT !.toolCallMap = <<>>]
           ELSE IF ~IsJSON(data) THEN cs
           ELSE LET chunk == data[1].v
                IN  IF chunk.kind = "null" THEN [cs EXCEPT !.threw = TRUE]
                    ELSE IF chunk.kind # "chunk" THEN cs
                    ELSE [cs EXCEPT
                            !.out = IF Truthy(chunk.content)
                                    THEN Append(@, sseText(chunk.content[1]))
                                    ELSE @,
                            !.toolCallMap = MergeFrags(@, chunk.tool_calls)]

\* collectStream, lines 196-243: one complete line.  cs is the collector's
\* state: lineBuffer, toolCallMap, out (frames written to the client so far in
\* this response) and threw (an exception left the loop body)
ProcessLine(cs, line) ==
  IF cs.threw THEN cs
  ELSE IF line = <<>> \/ line[1] # DATA THEN cs
  ELSE LET data == Trim(Tail(line))
       IN  IF data = <<DONEMARK>> THEN cs
           ELSE IF ~IsJSON(data) THEN cs
           ELSE LET chunk == data[1].v
                IN  IF chunk.kind = "null" THEN [cs EXCEPT !.threw = TRUE]
                    ELSE IF chunk.kind # "chunk" THEN cs
                    ELSE [cs EXCEPT
                            !.out = IF Truthy(chunk.content)
                                    THEN Append(@, sseText(chunk.content[1]))
                                    ELSE @,
                            !.toolCallMap = MergeFrags(@, chunk.tool_calls)]

\* collectStream, line 195: for (const line of lines); the state after one
\* line is the value cs1 the next iteration starts from
RECURSIVE ProcessLines(_, _)
ProcessLines(cs, lines) ==
  IF lines = <<>> THEN cs
  ELSE CHOOSE cs2 \in {ProcessLines(cs1, Tail(lines)) :
                         cs1 \in {ProcessLine(cs, Head(lines))}} : TRUE

\* a collector that takes the text after the last newline for a line
ProcessChunkNoPop(cs, value) ==
  CHOOSE cs2 \in {ProcessLines([cs EXCEPT !.lineBuffer = <<>>], lines) :
                   lines \in {Split(cs.lineBuffer \o value)}} : TRUE

\* a collector that forgets the partial line left by the previous read
ProcessChunkNoCarry(cs, value) ==
  CHOOSE cs2 \in {ProcessLines([cs EXCEPT !.lineBuffer = lines[Len(lines)]],
                                SubSeq(lines, 1, Len(lines) - 1)) :
                   lines \in {Split(value)}} : TRUE

\* collectStream, lines 191-195: one value returned by reader.read(); lines is
\* the value of (lineBuffer + value).split('\n') and its last piece is kept
ProcessChunk(cs, value) ==
  CHOOSE cs2 \in {ProcessLines([cs EXCEPT !.lineBuffer = lines[Len(lines)]],
                                SubSeq(lines, 1, Len(lines) - 1)) :
                   lines \in {Split(cs.lineBuffer \o value)}} : TRUE

\* collectStream, lines 178-185: the collector's locals at entry
CollectInit == [lineBuffer |-> <<>>, toolCallMap |-> <<>>, out |-> <<>>, threw |-> FALSE]

\* one entry of the map as a ToolCall (type 'function' is constant)
ToolCallOf(e) == [id |-> e.id, name |-> e.name, arguments |-> e.arguments]

\* collectStream, line 247: [...toolCallMap.values()]
MapValues(m) == [i \in 1..Len(m) |-> ToolCallOf(m[i])]

\* a result that always announces tool calls
HasToolCallsAlways(toolCalls) == TRUE

\* collectStream, line 248: hasToolCalls
HasToolCalls(toolCalls) == Len(toolCalls) > 0

\* ------------------------------------------------------------------- skills
NEXT_FLYWAY_VERSION == <<"f", "v">>

GET_REFERENCE == <<"g", "r">>

\* JSON.parse(toolCall.function.arguments): an object that has the keys the
\* tools read (its topic is 'kafka'), an object without them, an object with
\* another topic and nothing else, the literal null, or a SyntaxError
ParseArgs(a) ==
  IF a = <<"{", "k", "}">> THEN "object"
  ELSE IF a = <<"{", "}">> THEN "empty"
  ELSE IF a = <<"{", "p", "}">> THEN "persistence"
  ELSE IF a = <<"{", "s", "}">> THEN "security"
  ELSE IF a = <<"{", "/", "}">> THEN "pathlike"
  ELSE IF a = <<"n">> THEN "null"
  ELSE "SyntaxError"

\* args.topic
TopicOf(args) ==
  IF args = "object" THEN Some("kafka")
  ELSE IF args = "persistence" THEN Some("persistence")
  ELSE IF args = "security" THEN Some("security")
  ELSE IF args = "pathlike" THEN Some("../../.env")
  ELSE None

VALID_TOPICS ==
  {"api-design", "core-java", "persistence", "kafka", "observability",
   "cicd-github-actions", "gatling-perf", "jfr-profiling", "project-scaffold"}

\* the guides present in the references folder
ReferenceFiles ==
  {"cicd-github-actions", "code-quality", "core-java", "kafka", "kubernetes",
   "project-scaffold", "regression-testing", "security"}

\* process.env.GITHUB_REPO
GITHUB_REPO == Some("owner/repo")

\* a lookup that resolves any topic to a file
getReferenceUnchecked(topic, githubToken) ==
  IF Truthy(githubToken) /\ Truthy(GITHUB_REPO)
  THEN [value |-> <<"## Reference">>, reads |-> <<>>, fetches |-> <<OrEmpty(topic)>>]
  ELSE IF topic # None /\ topic[1] \in ReferenceFiles
  THEN [value |-> <<"## Reference">>, reads |-> <<OrEmpty(topic)>>, fetches |-> <<>>]
  ELSE [value |-> <<"Could not load reference file">>, reads |-> <<OrEmpty(topic)>>,
        fetches |-> <<>>]

\* getReference, lines 33-71: the text it resolves to, the guides whose file
\* it reads (<topic>.md in the references folder) and the guides it asks the
\* GitHub API for (the API is taken to answer)
getReference(topic, githubToken) ==
  IF topic = None \/ topic[1] \notin VALID_TOPICS
  THEN [value |-> <<"Unknown reference topic">>, reads |-> <<>>, fetches |-> <<>>]
  ELSE IF Truthy(githubToken) /\ Truthy(GITHUB_REPO)
  THEN [value |-> <<"## Reference">>, reads |-> <<>>, fetches |-> <<topic[1]>>]
  ELSE IF topic[1] \in ReferenceFiles
  THEN [value |-> <<"## Reference">>, reads |-> <<topic[1]>>, fetches |-> <<>>]
  ELSE [value |-> <<"Could not load reference file">>, reads |-> <<topic[1]>>,
        fetches |-> <<>>]

\* executeTool: the text it resolves to, or threw when the skill raises
\* (nextFlywayVersion calls existingFiles.split on an absent argument)
executeTool(name, args) ==
  IF name = NEXT_FLYWAY_VERSION
  THEN IF args = "object"
       THEN [threw |-> FALSE, value |-> <<"## Next Flyway Migration">>,
             reads |-> <<>>, fetches |-> <<>>]
       ELSE [threw |-> TRUE, value |-> <<"TypeError">>, reads |-> <<>>, fetches |-> <<>>]
  ELSE IF name = GET_REFERENCE
  THEN LET g == getReference(TopicOf(args), None)
       IN  [threw |-> FALSE, value |-> g.value, reads |-> g.reads, fetches |-> g.fetches]
  ELSE [threw |-> FALSE, value |-> <<"Unknown skill: ">> \o name,
        reads |-> <<>>, fetches |-> <<>>]

\* arguments that do not parse replaced by an empty mapping
RunToolLenient(toolCall) ==
  LET p   == ParseArgs(toolCall.arguments)
      err == <<"Error executing tool ">> \o toolCall.name
      x   == executeTool(toolCall.name, IF p \in {"SyntaxError", "null"} THEN "empty" ELSE p)
  IN  IF x.threw
      THEN [dispatched |-> TRUE, failed |-> TRUE, result |-> err \o <<": ">> \o x.value]
      ELSE [dispatched |-> TRUE, failed |-> FALSE, result |-> x.value]

\* a catch block that leaves the result empty
RunToolEmptyOnError(toolCall) ==
  LET p == ParseArgs(toolCall.arguments)
  IN  IF p \in {"SyntaxError", "null"}
      THEN [dispatched |-> FALSE, failed |-> TRUE, result |-> <<>>]
      ELSE LET x == executeTool(toolCall.name, p)
           IN  [dispatched |-> TRUE, failed |-> x.threw,
                result |-> IF x.threw THEN <<>> ELSE x.value]

\* agentLoop, lines 144-151: the result of one tool call; dispatched tells
\* whether executeTool was invoked
RunTool(toolCall) ==
  LET p   == ParseArgs(toolCall.arguments)
      err == <<"Error executing tool ">> \o toolCall.name
  IN  IF p = "SyntaxError"
      THEN [dispatched |-> FALSE, failed |-> TRUE, result |-> err \o <<": SyntaxError">>]
      ELSE IF p = "null"
      THEN [dispatched |-> FALSE, failed |-> TRUE, result |-> err \o <<": TypeError">>]
      ELSE LET x == executeTool(toolCall.name, p)
           IN  IF x.threw
               THEN [dispatched |-> TRUE, failed |-> TRUE,
                     result |-> err \o <<": ">> \o x.value]
               ELSE [dispatched |-> TRUE, failed |-> FALSE, result |-> x.value]

\* ----------------------------------------------------------------- messages
Msg(role, content, tcs, tcid) ==
  [role |-> role, content |-> content, tool_calls |-> tcs, tool_call_id |-> tcid]

\* an assistant turn that carries text
AssistantTurnWithText(toolCalls) == Msg("assistant", Some(<<"a">>), toolCalls, None)

\* agentLoop, lines 136-140: the assistant's tool-call turn
AssistantTurn(toolCalls) == Msg("assistant", None, toolCalls, None)

\* a tool message that refers to the tool's name instead of the call's id
ToolMessageByName(toolCall, result) ==
  Msg("tool", Some(result), <<>>, Some(toolCall.name))

\* agentLoop, lines 153-157: the message that carries a tool call's result
ToolMessage(toolCall, result) == Msg("tool", Some(result), <<>>, Some(toolCall.id))

\* -------------------------------------------------------- signature verifier
Key(kid, k) == [key_identifier |-> kid, key |-> k]

\* a signature made over body with the private half of key material k
Sig(k, body) == [signer |-> k, body |-> body]

\* a verification that does not look at the signed body
CryptoVerifyAnyBody(k, rawBody, signature) ==
  IF k = "notpem" THEN "throws"
  ELSE IF signature.signer = k THEN "true"
  ELSE "false"

\* crypto verify: threw when the key is not a PEM public key
CryptoVerify(k, rawBody, signature) ==
  IF k = "notpem" THEN "throws"
  ELSE IF signature.signer = k /\ signature.body = rawBody THEN "true"
  ELSE "false"

\* keys.find((k) => k.key_identifier === keyId): position of the first match
RECURSIVE FindKey(_, _, _)
FindKey(keys, keyId, i) ==
  IF i > Len(keys) THEN 0
  ELSE IF keys[i].key_identifier = keyId THEN i
  ELSE FindKey(keys, keyId, i + 1)

\* verifySignature, lines 50-65, once fetchPublicKeys has returned keys
\* (keys.defined is FALSE when the endpoint's body had no public_keys)
VerifyWith(keys, rawBody, keyId, signature) ==
  IF ~keys.defined THEN FALSE
  ELSE LET p == FindKey(keys.list, keyId, 1)
       IN  IF p = 0 THEN FALSE
           ELSE CryptoVerify(keys.list[p].key, rawBody, signature) = "true"

\* verifySignature, lines 50 and 58: keys.find on a key set that is undefined
\* and verifier.verify with a key that is not PEM raise inside the try block
VerifyRaises(keys, rawBody, keyId, signature) ==
  \/ ~keys.defined
  \/ LET p == FindKey(keys.list, keyId, 1)
     IN  p # 0 /\ CryptoVerify(keys.list[p].key, rawBody, signature) = "throws"

\* a catch block that logs the error and throws it again
CaughtRethrown(raised, value) == [rejected |-> raised, value |-> ~raised /\ value]

\* verifySignature, lines 48 and 62-65: whatever is raised inside the try
\* block is caught and the promise resolves to false
Caught(raised, value) == [rejected |-> FALSE, value |-> ~raised /\ value]

\* a cache test that does not look at the expiry time
CacheTestNoExpiry(t, expiry, keys) ==
  IF ~keys.defined THEN "throws"
  ELSE IF Len(keys.list) > 0 THEN "hit" ELSE "fetch"

\* fetchPublicKeys, line 17: what the cache test does at time t
CacheTest(t, expiry, keys) ==
  IF t < expiry
  THEN IF ~keys.defined THEN "throws"
       ELSE IF Len(keys.list) > 0 THEN "hit" ELSE "fetch"
  ELSE "fetch"

\* a failed fetch that keeps the old key set for another TTL
AfterFetchBackoff(kr, keys, expiry, t) ==
  IF kr.ok THEN [keys |-> kr.public_keys, expiry |-> t + TTL]
  ELSE [keys |-> keys, expiry |-> t + TTL]

\* fetchPublicKeys, lines 25-31: the cache after the key endpoint has answered
\* at time t; a response that is not ok raises on line 26, before the cache
\* is written
AfterFetch(kr, keys, expiry, t) ==
  IF kr.ok THEN [keys |-> kr.public_keys, expiry |-> t + TTL]
  ELSE [keys |-> keys, expiry |-> expiry]

\* a key set read from the cache before the fetch was awaited
FetchedKeysBeforeSwap(cache, kr) == cache

\* fetchPublicKeys, lines 29-32: the key set it returns after a fetch is the
\* one it has just stored (no suspension between the store and the return)
FetchedKeys(cache, kr) == kr.public_keys

\* -------------------------------------------------------------------- state
VARIABLES
  now,          \* the value of the last Date.now(), in ticks
  cachedKeys,   \* verify.ts: cachedKeys ([defined, list])
  cacheExpiry,  \* verify.ts: cacheExpiry
  keyFetches,   \* number of requests sent to the key endpoint
  env,          \* what the two endpoints may answer: [completion, keys]
  req,          \* per request: the headers and the raw body received
  pc,           \* per request: where its handler is suspended
  isValid,      \* per request: what verifySignature resolved to
  res,          \* per request: the express Response
  loop,         \* per request: agentLoop's locals
  coll,         \* per request: collectStream's locals
  up,           \* per request: the upstream response being read
  hist          \* per request: what the handler has done so far

vars == <<now, cachedKeys, cacheExpiry, keyFetches, env,
          req, pc, isValid, res, loop, coll, up, hist>>

\* ---------------------------------------------------------------- responses
\* res.status(code).json({error}) ends the response
Reject(rs, code, error) == [rs EXCEPT !.status = code, !.json = error, !.ended = TRUE]

\* the stream opened without the ack frame
OpenStreamNoAck(rs) == [rs EXCEPT !.sse = TRUE]

\* handler, lines 71-77: the SSE headers and the first frame
OpenStream(rs) == [rs EXCEPT !.sse = TRUE, !.frames = Append(@, sseAck)]

\* a closing text written before the last frame
CloseStreamWithFinal(rs) ==
  [rs EXCEPT !.frames = @ \o <<sseText(<<"Maximum iterations reached">>), sseDone>>,
             !.ended = TRUE]

\* the last frame written without ending the response
CloseStreamNoEnd(rs) == [rs EXCEPT !.frames = Append(@, sseDone)]

\* handler, lines 88-89
CloseStream(rs) == [rs EXCEPT !.frames = Append(@, sseDone), !.ended = TRUE]

\* handler, lines 82-86: the catch block's frame
Notice(message) == sseText(<<"Extension error: ">> \o message)

\* an error answered with a status and a JSON body instead of a frame
CatchAndCloseWithStatus(rs, message) ==
  [rs EXCEPT !.status = 500, !.json = "Extension error", !.ended = TRUE]

\* handler, lines 82-89: agentLoop threw an Error with this message
CatchAndClose(rs, message) ==
  CloseStream([rs EXCEPT !.frames = Append(@, Notice(message))])

\* frames: the frames passed to res.write, in order; destroyed: the client has
\* closed the connection under the response
NewRes ==
  [status |-> 0, json |-> <<>>, sse |-> FALSE, frames |-> <<>>, ended |-> FALSE,
   destroyed |-> FALSE]

NewLoop == [messages |-> <<>>, iteration |-> 0, toolCalls |-> <<>>, next |-> 0]

NewUp == [status |-> 0, body |-> <<>>, ending |-> "done", pos |-> 0]

\* verifyArgs and verifyResult: the call of verifySignature and what it resolved
\* to; keys: the key set fetchPublicKeys returned to it, if it returned;
\* parsed: JSON.parse of the body was attempted; calls: the completion
\* calls issued, each with its bearer token and messages; tools: the calls of
\* executeTool; thrown: the messages of the errors agentLoop raised
\* verifyRaised: an error was raised inside verifySignature's try block;
\* verifyRejected: the promise of verifySignature rejected; mark: the number
\* of frames written when the response being read arrived
NewHist == [verifyArgs |-> <<>>, verifyResult |-> <<>>, keys |-> <<>>, parsed |-> FALSE,
            calls |-> <<>>, tools |-> <<>>, thrown |-> <<>>,
            verifyRaised |-> FALSE, verifyRejected |-> FALSE, mark |-> 0]

\* ------------------------------------------------------------------- inputs
\* a header is missing when it is absent or empty (!keyId)
Missing(o, empty) == o = None \/ o[1] = empty

NoSig == Sig("", "")

\* a body that is not JSON taken for a payload
ParseBodyLenient(b) == [ok |-> TRUE, kind |-> b]

\* JSON.parse of the raw request body
ParseBody(b) ==
  IF b = "notjson" THEN [ok |-> FALSE, kind |-> "SyntaxError"]
  ELSE [ok |-> TRUE, kind |-> b]

\* payload.messages of the body {messages:[{role:'user',content:'q'}]}
UserMessages == <<Msg("user", Some(<<"q">>), <<>>, None)>>

\* payload.messages of the body {messages:[{role:'user',content:'p'}]}
OtherMessages == <<Msg("user", Some(<<"p">>), <<>>, None)>>

\* payload.messages is an array for these bodies; for the others the spread
\* on line 104 raises a TypeError
HasMessages(kind) == kind \in {"messages", "messages2"}

PayloadMessages(kind) == IF kind = "messages2" THEN OtherMessages ELSE UserMessages

\* handler, line 44
SignatureHeadersMissing(q) == Missing(q.keyId, "") \/ Missing(q.signature, NoSig)

\* the token check left out
TokenMissingNever(q) == FALSE

\* handler, line 49
TokenMissing(q) == Missing(q.token, "")

\* the result of verifySignature ignored
SignatureRejectedNever(valid) == FALSE

\* handler, line 56
SignatureRejected(valid) == ~valid

\* an off-by-one loop test
LoopContinuesOneMore(iteration) == iteration <= MAX_ITERATIONS

\* agentLoop, line 106: the loop test
LoopContinues(iteration) == iteration < MAX_ITERATIONS

\* a completion call made with a token the server holds, not the caller's
CallServerToken(token, messages) == [bearer |-> Some("tokA"), messages |-> messages]

\* the body of one completion call (model, tools, tool_choice and stream are
\* constants of the source)
Call(token, messages) == [bearer |-> token, messages |-> messages]

\* the decimal text of a status code
StatusText(status) ==
  IF status = 500 THEN "500" ELSE IF status = 429 THEN "429" ELSE "status"

\* apiResponse.text(): the body as text
TextOf(body) == [i \in 1..Len(body) |-> body[i].t]

\* an error message that leaves out the response body
ApiErrorNoBody(rsp) == <<"Copilot API ", StatusText(rsp.status)>>

\* agentLoop, lines 123-124: the message of the error raised on a response
\* that is not ok
ApiError(rsp) == <<"Copilot API ", StatusText(rsp.status), ": ">> \o TextOf(rsp.body)

\* the keep-alive text an endless upstream stream goes on sending
KeepAlive == <<JUNK, NL>>

\* the i-th element after position u.pos of the upstream body
StreamAt(u, i) ==
  LET p == u.pos + i
  IN  IF p <= Len(u.body) THEN u.body[p]
      ELSE KeepAlive[((p - Len(u.body) - 1) % 2) + 1]

Advance(u, n) ==
  LET p == u.pos + n
  IN  [u EXCEPT !.pos = IF p <= Len(u.body) THEN p
                        ELSE Len(u.body) + ((p - Len(u.body)) % 2)]

\* ------------------------------------------------------------------ actions
\* handleCopilotRequest, lines 38-55, with verifySignature and fetchPublicKeys
\* up to their first suspension
Receive(r) ==
  /\ pc[r] = "new"
  /\ LET q == req[r]
     IN  IF SignatureHeadersMissing(q)
         THEN /\ res' = [res EXCEPT ![r] = Reject(@, 401, "Missing signature headers")]
              /\ pc' = [pc EXCEPT ![r] = "closed"]
              /\ UNCHANGED <<now, isValid, hist, keyFetches>>
         ELSE IF TokenMissing(q)
         THEN /\ res' = [res EXCEPT ![r] = Reject(@, 401, "Missing X-GitHub-Token header")]
              /\ pc' = [pc EXCEPT ![r] = "closed"]
              /\ UNCHANGED <<now, isValid, hist, keyFetches>>
         ELSE \E d \in now..MaxTime :
              LET t    == CacheTest(d, cacheExpiry, cachedKeys)
                  args == [rawBody |-> q.body, keyId |-> q.keyId[1],
                           signature |-> q.signature[1]]
                  raised == \/ t = "throws"
                            \/ /\ t = "hit"
                               /\ VerifyRaises(cachedKeys, q.body, q.keyId[1],
                                               q.signature[1])
                  v    == Caught(raised,
                                 IF t = "hit"
                                 THEN VerifyWith(cachedKeys, q.body, q.keyId[1],
                                                 q.signature[1])
                                 ELSE FALSE)
              IN  /\ res' = res
                  /\ now' = d
                  /\ IF t = "fetch"
                     THEN /\ keyFetches' = keyFetches + 1
                          /\ pc' = [pc EXCEPT ![r] = "keyfetch"]
                          /\ hist' = [hist EXCEPT ![r].verifyArgs = Some(args)]
                          /\ isValid' = isValid
                     ELSE /\ keyFetches' = keyFetches
                          /\ pc' = [pc EXCEPT ![r] = IF v.rejected THEN "closed"
                                                     ELSE "verified"]
                          /\ hist' = [hist EXCEPT
                                       ![r].verifyArgs = Some(args),
                                       ![r].verifyResult = IF v.rejected THEN None
                                                           ELSE Some(v.value),
                                       ![r].verifyRaised = raised,
                                       ![r].verifyRejected = v.rejected,
                                       ![r].keys = IF t = "hit" THEN Some(cachedKeys)
                                                   ELSE None]
                          /\ isValid' = [isValid EXCEPT ![r] = v.value]
  /\ UNCHANGED <<cachedKeys, cacheExpiry, env, req, loop, coll, up>>

\* fetchPublicKeys, lines 21-32, and verifySignature, lines 50-65: the key
\* endpoint answers
KeyFetchReturn(r) ==
  /\ pc[r] = "keyfetch"
  /\ \E kr \in env.keys, t \in now..MaxTime :
       LET q == req[r]
           keys == FetchedKeys(cachedKeys, kr)
           raised == \/ ~kr.ok
                     \/ VerifyRaises(keys, q.body, q.keyId[1], q.signature[1])
           v == Caught(raised,
                       IF kr.ok
                       THEN VerifyWith(keys, q.body, q.keyId[1], q.signature[1])
                       ELSE FALSE)
           cache == AfterFetch(kr, cachedKeys, cacheExpiry, t)
       IN  /\ cachedKeys' = cache.keys
           /\ cacheExpiry' = cache.expiry
           /\ IF kr.ok THEN now' = t ELSE t = now /\ now' = now
           /\ isValid' = [isValid EXCEPT ![r] = v.value]
           /\ hist' = [hist EXCEPT ![r].verifyResult = IF v.rejected THEN None
                                                       ELSE Some(v.value),
                                   ![r].verifyRaised = raised,
                                   ![r].verifyRejected = v.rejected,
                                   ![r].keys = IF kr.ok THEN Some(keys) ELSE None]
           /\ pc' = [pc EXCEPT ![r] = IF v.rejected THEN "closed" ELSE "verified"]
  /\ UNCHANGED <<keyFetches, env, req, res, loop, coll, up>>

\* handleCopilotRequest, lines 56-81, and agentLoop, lines 104-120: from the
\* result of verifySignature to the first completion call
AfterVerify(r) ==
  /\ pc[r] = "verified"
  /\ LET q == req[r]
         b == ParseBody(q.body)
     IN  IF SignatureRejected(isValid[r])
         THEN /\ res' = [res EXCEPT ![r] = Reject(@, 401, "Invalid request signature")]
              /\ pc' = [pc EXCEPT ![r] = "closed"]
              /\ UNCHANGED <<loop, hist>>
         ELSE IF ~b.ok
         THEN /\ res' = [res EXCEPT ![r] = Reject(@, 400, "Invalid JSON payload")]
              /\ pc' = [pc EXCEPT ![r] = "closed"]
              /\ hist' = [hist EXCEPT ![r].parsed = TRUE]
              /\ loop' = loop
         ELSE IF ~HasMessages(b.kind)
         THEN /\ res' = [res EXCEPT ![r] = CatchAndClose(OpenStream(@), <<"TypeError">>)]
              /\ pc' = [pc EXCEPT ![r] = "closed"]
              /\ hist' = [hist EXCEPT ![r].parsed = TRUE,
                                      ![r].thrown = Append(@, <<"TypeError">>)]
              /\ loop' = loop
         ELSE /\ res' = [res EXCEPT ![r] = OpenStream(@)]
              /\ pc' = [pc EXCEPT ![r] = "completion"]
              /\ loop' = [loop EXCEPT ![r] = [NewLoop EXCEPT !.messages =
                                                            PayloadMessages(b.kind)]]
              /\ hist' = [hist EXCEPT ![r].parsed = TRUE,
                                      ![r].calls = Append(@, Call(q.token,
                                                                  PayloadMessages(b.kind)))]
  /\ UNCHANGED <<now, cachedKeys, cacheExpiry, keyFetches, env, req, isValid,
                 coll, up>>

\* agentLoop, lines 107-128: the completion endpoint answers (status 0 is a
\* network error, fetch rejects)
CompletionReturn(r) ==
  /\ pc[r] = "completion"
  /\ \E rsp \in env.completion :
       IF rsp.status # 200
       THEN LET m == IF rsp.status = 0 THEN <<"fetch failed">> ELSE ApiError(rsp)
            IN  /\ res' = [res EXCEPT ![r] = CatchAndClose(@, m)]
                /\ hist' = [hist EXCEPT ![r].thrown = Append(@, m)]
                /\ pc' = [pc EXCEPT ![r] = "closed"]
                /\ up' = IF rsp.status = 0 THEN up ELSE [up EXCEPT ![r] = rsp]
                /\ coll' = coll
       ELSE /\ up' = [up EXCEPT ![r] = [rsp EXCEPT !.pos = 0]]
            /\ coll' = [coll EXCEPT ![r] = CollectInit]
            /\ pc' = [pc EXCEPT ![r] = "reading"]
            /\ hist' = [hist EXCEPT ![r].mark = Len(res[r].frames)]
            /\ res' = res
  /\ UNCHANGED <<now, cachedKeys, cacheExpiry, keyFetches, env, req, isValid, loop>>

\* collectStream, lines 188-245: reader.read() resolves with a value of n
\* elements
StreamRead(r) ==
  /\ pc[r] = "reading"
  /\ \E n \in 1..MaxChunk :
       /\ up[r].ending = "endless" \/ up[r].pos + n <= Len(up[r].body)
       /\ \E c \in {ProcessChunk(coll[r], [i \in 1..n |-> StreamAt(up[r], i)])} :
              /\ up' = [up EXCEPT ![r] = Advance(@, n)]
              /\ IF c.threw
                 THEN /\ res' = [res EXCEPT ![r] =
                                   CatchAndClose([@ EXCEPT !.frames = @ \o c.out],
                                                 <<"TypeError">>)]
                      /\ hist' = [hist EXCEPT ![r].thrown = Append(@, <<"TypeError">>)]
                      /\ pc' = [pc EXCEPT ![r] = "closed"]
                      /\ coll' = [coll EXCEPT ![r] = [c EXCEPT !.out = <<>>]]
                 ELSE /\ res' = [res EXCEPT ![r].frames = @ \o c.out]
                      /\ coll' = [coll EXCEPT ![r] = [c EXCEPT !.out = <<>>]]
                      /\ UNCHANGED <<hist, pc>>
  /\ UNCHANGED <<now, cachedKeys, cacheExpiry, keyFetches, env, req, isValid, loop>>

\* collectStream, lines 188-189 and 247-248, and agentLoop, lines 128-140:
\* reader.read() reports the end of the stream, or rejects
StreamEnd(r) ==
  /\ pc[r] = "reading"
  /\ up[r].ending # "endless"
  /\ up[r].pos = Len(up[r].body)
  /\ IF up[r].ending = "error"
     THEN /\ res' = [res EXCEPT ![r] = CatchAndClose(@, <<"read failed">>)]
          /\ hist' = [hist EXCEPT ![r].thrown = Append(@, <<"read failed">>)]
          /\ pc' = [pc EXCEPT ![r] = "closed"]
          /\ loop' = loop
     ELSE LET toolCalls == MapValues(coll[r].toolCallMap)
          IN  IF ~HasToolCalls(toolCalls)
              THEN /\ res' = [res EXCEPT ![r] = CloseStream(@)]
                   /\ pc' = [pc EXCEPT ![r] = "closed"]
                   /\ UNCHANGED <<loop, hist>>
              ELSE /\ loop' = [loop EXCEPT
                                 ![r].messages =
                                   Append(@, AssistantTurn(toolCalls)),
                                 ![r].toolCalls = toolCalls,
                                 ![r].next = 1]
                   /\ pc' = [pc EXCEPT ![r] = "tool"]
                   /\ UNCHANGED <<res, hist>>
  /\ UNCHANGED <<now, cachedKeys, cacheExpiry, keyFetches, env, req, isValid,
                 coll, up>>

\* agentLoop, lines 143-160 and 106-120: one tool call of the cycle, and after
\* the last one the next turn of the loop
ToolStep(r) ==
  /\ pc[r] = "tool"
  /\ loop[r].next \in 1..Len(loop[r].toolCalls)
  /\ LET l        == loop[r]
         toolCall == l.toolCalls[l.next]
         x        == RunTool(toolCall)
         e        == executeTool(toolCall.name, ParseArgs(toolCall.arguments))
         messages == Append(l.messages, ToolMessage(toolCall, x.result))
         ran      == IF x.dispatched
                     THEN Append(hist[r].tools,
                                 [name    |-> toolCall.name,
                                  args    |-> ParseArgs(toolCall.arguments),
                                  reads   |-> e.reads,
                                  fetches |-> e.fetches])
                     ELSE hist[r].tools
     IN  IF l.next < Len(l.toolCalls)
         THEN /\ loop' = [loop EXCEPT ![r].messages = messages, ![r].next = l.next + 1]
              /\ hist' = [hist EXCEPT ![r].tools = ran]
              /\ UNCHANGED <<pc, res>>
         ELSE IF LoopContinues(l.iteration + 1)
         THEN /\ loop' = [loop EXCEPT ![r].messages = messages,
                                      ![r].iteration = l.iteration + 1,
                                      ![r].toolCalls = <<>>,
                                      ![r].next = 0]
              /\ hist' = [hist EXCEPT ![r].tools = ran,
                                      ![r].calls = Append(@, Call(req[r].token, messages))]
              /\ pc' = [pc EXCEPT ![r] = "completion"]
              /\ res' = res
         ELSE /\ loop' = [loop EXCEPT ![r].messages = messages,
                                      ![r].iteration = l.iteration + 1,
                                      ![r].toolCalls = <<>>,
                                      ![r].next = 0]
              /\ hist' = [hist EXCEPT ![r].tools = ran]
              /\ pc' = [pc EXCEPT ![r] = "closed"]
              /\ res' = [res EXCEPT ![r] = CloseStream(@)]
  /\ UNCHANGED <<now, cachedKeys, cacheExpiry, keyFetches, env, req, isValid,
                 coll, up>>

\* the client closes the connection while its stream is open; the handler
\* registers no listener for it and passes no abort signal to fetch, so
\* nothing but the response object changes
ClientDisconnect(r) ==
  /\ res[r].sse
  /\ ~res[r].ended
  /\ ~res[r].destroyed
  /\ res' = [res EXCEPT ![r].destroyed = TRUE]
  /\ UNCHANGED <<now, cachedKeys, cacheExpiry, keyFetches, env, req, pc, isValid,
                 loop, coll, up, hist>>

Next ==
  \/ \E r \in Reqs : Receive(r)
  \/ \E r \in Reqs : KeyFetchReturn(r)
  \/ \E r \in Reqs : AfterVerify(r)
  \/ \E r \in Reqs : CompletionReturn(r)
  \/ \E r \in Reqs : StreamRead(r)
  \/ \E r \in Reqs : StreamEnd(r)
  \/ \E r \in Reqs : ToolStep(r)

\* ------------------------------------------------------- upstream responses
Text(c) == JChunk(Some(c), <<>>)

Delta(tcs) == JChunk(None, tcs)

Response(status, body, ending) ==
  [status |-> status, body |-> body, ending |-> ending, pos |-> 0]

\* a final answer in two text deltas, then the end marker
RespFinal ==
  Response(200, Rec(Text(<<"a">>)) \o Rec(Text(<<"b">>)) \o <<DATA, DONEMARK, NL>>, "done")

\* one tool call as the completion API sends it: id and name whole in the
\* first fragment, the arguments in pieces after it
RespToolFirst ==
  Response(200,
    Rec(Delta(<<Frag(0, Some(<<"c", "1">>), Some(GET_REFERENCE), Some(<<>>))>>))
    \o Rec(Delta(<<Frag(0, None, None, Some(<<"{", "k">>))>>))
    \o Rec(Delta(<<Frag(0, None, None, Some(<<"}">>))>>)), "done")

\* a tool call whose index is introduced by a fragment without id and name,
\* which arrive in the second fragment
RespToolLate ==
  Response(200,
    Rec(Delta(<<Frag(0, None, None, Some(<<"{">>))>>))
    \o Rec(Delta(<<Frag(0, Some(<<"c", "1">>), Some(NEXT_FLYWAY_VERSION),
                        Some(<<"k", "}">>))>>)), "done")

\* three tool calls in one response, their fragments interleaved and text in
\* between: index 0 runs next_flyway_version with its arguments, index 1 runs
\* it without them, the arguments of index 2 are cut short
RespThree ==
  Response(200,
    Rec(Delta(<<Frag(0, None, None, Some(<<"{">>)),
                Frag(1, Some(<<"c", "2">>), None, Some(<<"{", "}">>))>>))
    \o Rec(Text(<<"a">>))
    \o Rec(Delta(<<Frag(0, Some(<<"c", "1">>), Some(NEXT_FLYWAY_VERSION),
                        Some(<<"k", "}">>)),
                   Frag(1, None, Some(NEXT_FLYWAY_VERSION), None)>>))
    \o Rec(Delta(<<Frag(2, Some(<<"c", "3">>), Some(<<"g">>), Some(<<"{">>)),
                   Frag(2, None, Some(<<"r">>), None)>>)), "done")

\* two tool calls, the one of index 1 arriving before the one of index 0
RespSwapped ==
  Response(200,
    Rec(Delta(<<Frag(1, Some(<<"c", "2">>), Some(GET_REFERENCE),
                     Some(<<"{", "k", "}">>))>>))
    \o Rec(Delta(<<Frag(0, Some(<<"c", "1">>), Some(NEXT_FLYWAY_VERSION),
                        Some(<<"{", "k", "}">>))>>)), "done")

\* one tool call in a single record
RespToolOne ==
  Response(200,
    Rec(Delta(<<Frag(0, Some(<<"c", "1">>), Some(GET_REFERENCE),
                     Some(<<"{", "k", "}">>))>>)), "done")

\* the end marker in the middle of the body: a tool-call fragment before it,
\* the rest of the tool call and text after it
RespDoneEarly ==
  Response(200,
    Rec(Delta(<<Frag(0, Some(<<"c", "1">>), Some(GET_REFERENCE), Some(<<"{">>))>>))
    \o <<DATA, DONEMARK, SP, NL>>
    \o Rec(Delta(<<Frag(0, None, None, Some(<<"k", "}">>))>>))
    \o Rec(Text(<<"b">>)), "done")

\* a tool call and text, then a last record that carries more text and more
\* of the tool call's arguments and is not ended by a newline
RespCutShort ==
  Response(200,
    Rec(Delta(<<Frag(0, Some(<<"c", "1">>), Some(GET_REFERENCE), Some(<<"{", "k", "}">>))>>))
    \o Rec(Text(<<"a">>))
    \o <<DATA, J(JChunk(Some(<<"b">>), <<Frag(0, None, None, Some(<<"x">>))>>))>>, "done")

\* a final answer whose last record is not ended by a newline
RespTextCut == Response(200, Rec(Text(<<"a">>)) \o <<DATA, J(Text(<<"b">>))>>, "done")

\* a tool call that receives no argument fragment
RespNoArgs ==
  Response(200,
    Rec(Delta(<<Frag(0, Some(<<"c", "1">>), Some(GET_REFERENCE), None)>>)), "done")

\* five calls of get_reference in one response, each introduced by a
\* fragment without its name: for a guide that is there, for a topic of the
\* list whose guide is not there, for a guide that is there but not on the
\* list, for a path, and without a topic
RespReferences ==
  Response(200,
    Rec(Delta(<<Frag(0, Some(<<"c", "1">>), None, Some(<<"{">>)),
                Frag(1, Some(<<"c", "2">>), None, Some(<<"{">>)),
                Frag(2, Some(<<"c", "3">>), None, Some(<<"{">>)),
                Frag(3, Some(<<"c", "4">>), None, Some(<<"{">>)),
                Frag(4, Some(<<"c", "5">>), None, Some(<<"{">>))>>))
    \o Rec(Delta(<<Frag(0, None, Some(GET_REFERENCE), Some(<<"k", "}">>)),
                   Frag(1, None, Some(GET_REFERENCE), Some(<<"p", "}">>)),
                   Frag(2, None, Some(GET_REFERENCE), Some(<<"s", "}">>)),
                   Frag(3, None, Some(GET_REFERENCE), Some(<<"/", "}">>)),
                   Frag(4, None, Some(GET_REFERENCE), Some(<<"}">>))>>)), "done")

\* a short final answer
RespShort == Response(200, Rec(Text(<<"a">>)), "done")

\* text, then the body breaks off and the read fails
RespReadError == Response(200, Rec(Text(<<"a">>)) \o <<DATA>>, "error")

\* a record that is the JSON literal null, between two text records
RespNullRecord ==
  Response(200, Rec(Text(<<"a">>)) \o Rec(JNull) \o Rec(Text(<<"b">>)), "done")

\* text, then keep-alive lines without end
RespEndless == Response(200, Rec(Text(<<"a">>)), "endless")

\* a non-success status with an error text as its body
RespError == Response(500, <<JUNK>>, "done")

\* another non-success status, with an empty body
RespRateLimit == Response(429, <<>>, "done")

\* the connection fails before a response arrives
RespNetFail == Response(0, <<>>, "done")

\* ----------------------------------------------------------------- requests
Request(keyId, signature, token, body) ==
  [keyId |-> keyId, signature |-> signature, token |-> token, body |-> body]

Bodies == {"messages", "nomessages", "null", "notjson"}

\* requests signed by the platform's key k1/p1
SignedRequests ==
  {Request(Some("k1"), Some(Sig("p1", b)), Some("tokA"), b) : b \in Bodies}

\* requests that lack a header, carry an empty one, name an unknown key, carry
\* a signature over another body, or are signed with another key
OtherRequests ==
  { Request(None, Some(Sig("p1", "messages")), Some("tokA"), "messages"),
    Request(Some("k1"), None, Some("tokA"), "messages"),
    Request(Some("k1"), Some(Sig("p1", "messages")), None, "messages"),
    Request(Some("k1"), Some(Sig("p1", "messages")), Some(""), "messages"),
    Request(Some("k9"), Some(Sig("p1", "messages")), Some("tokA"), "messages"),
    Request(Some("k1"), Some(Sig("p1", "null")), Some("tokA"), "messages"),
    Request(Some("k1"), Some(Sig("p2", "messages")), Some("tokA"), "messages") }

RequestInputs == SignedRequests \cup OtherRequests

\* requests that compete for the key cache and end before the stream opens
BackgroundRequests ==
  { Request(Some("k1"), Some(Sig("p1", "notjson")), Some("tokB"), "notjson"),
    Request(Some("k9"), Some(Sig("p1", "messages")), Some("tokB"), "messages") }

\* ------------------------------------------------------------ specifications
\* request 1 is drawn from primary, the requests in flight beside it from
\* background; the completion endpoint answers with one of completion, the
\* key endpoint with one of keys
InitOf(primary, background, completion, keys) ==
  /\ now = 0
  /\ cachedKeys = [defined |-> TRUE, list |-> <<>>]
  /\ cacheExpiry = 0
  /\ keyFetches = 0
  /\ env = [completion |-> completion, keys |-> keys]
  /\ req \in {f \in [Reqs -> primary \cup background] :
                /\ f[1] \in primary
                /\ \A r \in Reqs \ {1} : f[r] \in background}
  /\ pc = [r \in Reqs |-> "new"]
  /\ isValid = [r \in Reqs |-> FALSE]
  /\ res = [r \in Reqs |-> NewRes]
  /\ loop = [r \in Reqs |-> NewLoop]
  /\ coll = [r \in Reqs |-> CollectInit]
  /\ up = [r \in Reqs |-> NewUp]
  /\ hist = [r \in Reqs |-> NewHist]

\* the key endpoint serves the platform's key
GoodKeys == [ok |-> TRUE, public_keys |-> [defined |-> TRUE, list |-> <<Key("k1", "p1")>>]]

\* the key endpoint answers with an empty key list
EmptyKeys == [ok |-> TRUE, public_keys |-> [defined |-> TRUE, list |-> <<>>]]

\* the key endpoint fails: a non-OK status, a network error, a body that is
\* not JSON
KeyFailure == [ok |-> FALSE, public_keys |-> [defined |-> FALSE, list |-> <<>>]]

\* the key endpoint answers with a JSON body that has no public_keys
NoKeysField == [ok |-> TRUE, public_keys |-> [defined |-> FALSE, list |-> <<>>]]

\* the key endpoint serves key material that is not a PEM public key
BadPemKeys ==
  [ok |-> TRUE, public_keys |-> [defined |-> TRUE, list |-> <<Key("k1", "notpem")>>]]

\* the server under every kind of request, with requests in flight beside it
Init ==
  InitOf(RequestInputs, BackgroundRequests,
         {RespShort, RespToolOne, RespError, RespNetFail},
         {GoodKeys, EmptyKeys, KeyFailure})

Spec == Init /\ [][Next]_vars

\* signed requests and a request that names an unknown key, against every
\* kind of answer of the key endpoint
InitKeys ==
  InitOf({Request(Some("k1"), Some(Sig("p1", "messages")), Some("tokA"), "messages"),
          Request(Some("k9"), Some(Sig("p1", "messages")), Some("tokA"), "messages")},
         {Request(Some("k1"), Some(Sig("p1", "notjson")), Some("tokB"), "notjson")},
         {RespShort, RespToolOne},
         {GoodKeys, EmptyKeys, KeyFailure, NoKeysField, BadPemKeys})

SpecKeys == InitKeys /\ [][Next]_vars

\* one signed request against every kind of completion response
InitLoop ==
  InitOf(SignedRequests,
         {Request(Some("k1"), None, Some("tokB"), "messages")},
         {RespFinal, RespToolFirst, RespToolLate, RespThree, RespError, RespRateLimit,
          RespNetFail, RespReadError, RespNullRecord, RespEndless},
         {GoodKeys, KeyFailure})

SpecLoop == InitLoop /\ [][Next]_vars

\* one signed request whose responses put the collector to work: text and
\* tool-call fragments interleaved, indices out of order, a record of
\* unexpected shape, a body that breaks off
InitCollect ==
  InitOf({Request(Some("k1"), Some(Sig("p1", "messages")), Some("tokA"), "messages")},
         {Request(Some("k1"), None, Some("tokB"), "messages")},
         {RespFinal, RespThree, RespSwapped, RespNullRecord, RespReadError,
          RespDoneEarly},
         {GoodKeys})

SpecCollect == InitCollect /\ [][Next]_vars

\* the server with clients that may go away: the steps of Next and the
\* disconnection of a client (in the other specifications every client stays
\* connected until its response has ended)
NextCancel ==
  \/ Next
  \/ \E r \in Reqs : ClientDisconnect(r)

\* a signed request answered with text or with a tool call, beside a request
\* that is turned away
InitCancel ==
  InitOf({Request(Some("k1"), Some(Sig("p1", "messages")), Some("tokA"), "messages")},
         {Request(Some("k1"), None, Some("tokB"), "messages")},
         {RespShort, RespToolOne},
         {GoodKeys})

SpecCancel == InitCancel /\ [][NextCancel]_vars

\* two signed requests with different tokens and different conversations in
\* flight together; any further request is turned away
InitIsolation ==
  /\ InitOf({Request(Some("k1"), Some(Sig("p1", "messages")), Some("tokA"), "messages")},
            {Request(Some("k1"), Some(Sig("p1", "messages2")), Some("tokB"), "messages2"),
             Request(Some("k1"), None, Some("tokB"), "messages")},
            {RespShort, RespToolOne},
            {GoodKeys})
  /\ req[2].body = "messages2"
  /\ \A r \in Reqs \ {1, 2} : req[r].signature = None

SpecIsolation == InitIsolation /\ [][Next]_vars

\* a signed request whose responses end without a last newline
InitTail ==
  InitOf({Request(Some("k1"), Some(Sig("p1", "messages")), Some("tokA"), "messages")},
         {Request(Some("k1"), None, Some("tokB"), "messages")},
         {RespCutShort, RespTextCut, RespFinal},
         {GoodKeys})

SpecTail == InitTail /\ [][Next]_vars

\* a signed request whose tool calls come with arguments that parse, that
\* are cut short, or with none at all
InitArgs ==
  InitOf({Request(Some("k1"), Some(Sig("p1", "messages")), Some("tokA"), "messages")},
         {Request(Some("k1"), None, Some("tokB"), "messages")},
         {RespNoArgs, RespThree, RespShort},
         {GoodKeys})

SpecArgs == InitArgs /\ [][Next]_vars

\* the server some time after a verification has filled the cache: the key
\* set is the platform's and its lifetime is over; the key endpoint answers
\* or fails
InitStale ==
  /\ now = TTL
  /\ cachedKeys = GoodKeys.public_keys
  /\ cacheExpiry = TTL
  /\ keyFetches = 1
  /\ env = [completion |-> {RespShort, RespToolOne}, keys |-> {GoodKeys, KeyFailure}]
  /\ req \in {f \in [Reqs -> SignedRequests] :
                /\ f[1].body = "messages"
                /\ \A r \in Reqs \ {1} : f[r].body = "notjson"}
  /\ pc = [r \in Reqs |-> "new"]
  /\ isValid = [r \in Reqs |-> FALSE]
  /\ res = [r \in Reqs |-> NewRes]
  /\ loop = [r \in Reqs |-> NewLoop]
  /\ coll = [r \in Reqs |-> CollectInit]
  /\ up = [r \in Reqs |-> NewUp]
  /\ hist = [r \in Reqs |-> NewHist]

SpecStale == InitStale /\ [][Next]_vars

\* a signed request whose tool calls look up reference guides
InitReference ==
  InitOf({Request(Some("k1"), Some(Sig("p1", "messages")), Some("tokA"), "messages")},
         {Request(Some("k1"), None, Some("tokB"), "messages")},
         {RespReferences, RespShort},
         {GoodKeys})

SpecReference == InitReference /\ [][Next]_vars

\* the next step of request r; at most one of these is enabled at a time
Step(r) ==
  \/ Receive(r)
  \/ KeyFetchReturn(r)
  \/ AfterVerify(r)
  \/ CompletionReturn(r)
  \/ StreamRead(r)
  \/ StreamEnd(r)
  \/ ToolStep(r)

\* the pending continuation of every request is eventually run: the key
\* fetch, the completion call, each stream read and each tool execution
\* return or fail
Fairness == \A r \in Reqs : WF_vars(Step(r))

\* a request with or without its headers and with a body that is or is not
\* JSON, beside a request that names an unknown key
InitLive ==
  InitOf({Request(Some("k1"), Some(Sig("p1", "messages")), Some("tokA"), "messages"),
          Request(Some("k1"), Some(Sig("p1", "notjson")), Some("tokA"), "notjson"),
          Request(Some("k1"), Some(Sig("p1", "messages")), None, "messages")},
         {Request(Some("k9"), Some(Sig("p1", "messages")), Some("tokB"), "messages")},
         {RespShort, RespToolOne, RespError, RespEndless},
         {GoodKeys})

SpecLive == InitLive /\ [][Next]_vars /\ Fairness

\* ------------------------------------------------------------------- claims
\* what the handler has made visible or done for request r after the header
\* and signature checks
StreamOpened(r) == res[r].sse \/ res[r].frames # <<>>

Processed(r) == StreamOpened(r) \/ hist[r].calls # <<>> \/ hist[r].tools # <<>>

\* C1 (signature gate): the stream of a request is opened, a completion call
\* made or a tool executed only after verifySignature has resolved to true for
\* that request's own raw body, key identifier and signature; when it resolved
\* to false the request ends with 401, no frame, no completion call, no tool.
SignatureGate ==
  \A r \in Reqs :
    /\ Processed(r) =>
         /\ hist[r].verifyResult = Some(TRUE)
         /\ hist[r].verifyArgs =
              Some([rawBody |-> req[r].body, keyId |-> req[r].keyId[1],
                    signature |-> req[r].signature[1]])
    /\ hist[r].verifyResult = Some(FALSE) =>
         /\ ~Processed(r)
         /\ pc[r] \in {"verified", "closed"}
         /\ pc[r] = "closed" => res[r].status = 401 /\ res[r].ended

\* a verified request whose tool ran and whose stream carries frames
SignatureGateWitness ==
  \E r \in Reqs :
    /\ hist[r].verifyResult = Some(TRUE)
    /\ hist[r].tools # <<>>
    /\ Len(res[r].frames) >= 1

\* C8 (missing header): a request without the key-identifier, signature or
\* token header is answered 401 before anything else happens: verifySignature
\* is not called and no key fetch is sent for it, the body is not parsed, no
\* stream is opened and no completion call is made.
MissingHeaderRejected ==
  \A r \in Reqs :
    (req[r].keyId = None \/ req[r].signature = None \/ req[r].token = None) =>
      /\ pc[r] \in {"new", "closed"}
      /\ hist[r].verifyArgs = None
      /\ hist[r].verifyResult = None
      /\ ~hist[r].parsed
      /\ ~Processed(r)
      /\ pc[r] = "closed" => res[r].status = 401 /\ res[r].ended

\* a request without the token header has been answered 401
MissingHeaderWitness ==
  \E r \in Reqs :
    /\ req[r].token = None
    /\ req[r].keyId # None /\ req[r].signature # None
    /\ pc[r] = "closed"
    /\ res[r].status = 401

\* C9 (malformed body): a request with the three headers and a signature that
\* verified, whose body is not JSON, is answered 400 and no stream is opened:
\* no SSE header, no ack frame, no completion call.
MalformedBodyRejected ==
  \A r \in Reqs :
    (req[r].body = "notjson" /\ hist[r].verifyResult = Some(TRUE)) =>
      /\ ~Processed(r)
      /\ pc[r] \in {"verified", "closed"}
      /\ pc[r] = "closed" => res[r].status = 400 /\ res[r].ended /\ hist[r].parsed

\* a signed request with a body that is not JSON has been answered 400
MalformedBodyWitness ==
  \E r \in Reqs :
    /\ req[r].body = "notjson"
    /\ hist[r].verifyResult = Some(TRUE)
    /\ pc[r] = "closed"
    /\ res[r].status = 400

\* signature S is a valid signature of body B under key k
ValidUnder(k, B, S) == S.signer = k.key /\ S.body = B

\* verifySignature resolves for request r in this step
Resolves(r) == hist[r].verifyResult = None /\ hist'[r].verifyResult # None

\* C10 as stated (verification result): verifySignature returns true if and
\* only if the key set cached when it returns contains a key whose identifier
\* is K and under which S is a valid signature of B.
VerifyIffCachedKey ==
  [][\A r \in Reqs :
       Resolves(r) =>
         (hist'[r].verifyResult = Some(TRUE)
            <=> \E i \in 1..Len(cachedKeys'.list) :
                  /\ cachedKeys'.list[i].key_identifier = req[r].keyId[1]
                  /\ ValidUnder(cachedKeys'.list[i], req[r].body,
                                req[r].signature[1]))]_vars

\* C10 as amended: verifySignature returns true if and only if fetchPublicKeys
\* returned a key set to it (the fresh, non-empty cache, or the answer of a
\* successful fetch, which is then the cached key set) and S is a valid
\* signature of B under the first key of that set whose identifier is K.  When
\* the fetch fails it returns false whatever the cache still holds.
VerifyIffFirstKey ==
  [][\A r \in Reqs :
       Resolves(r) =>
         /\ hist'[r].keys # None => hist'[r].keys = Some(cachedKeys')
         /\ hist'[r].verifyResult = Some(TRUE)
              <=> /\ hist'[r].keys # None
                  /\ \E i \in 1..Len(cachedKeys'.list) :
                       /\ cachedKeys'.list[i].key_identifier = req[r].keyId[1]
                       /\ \A j \in 1..(i - 1) :
                            cachedKeys'.list[j].key_identifier # req[r].keyId[1]
                       /\ ValidUnder(cachedKeys'.list[i], req[r].body,
                                     req[r].signature[1])]_vars

\* a verification answered false from a failed fetch while the cache holds a
\* key that validates the signature, and another answered true
VerifyWitness ==
  \E r, q \in Reqs :
    /\ hist[r].verifyResult = Some(FALSE)
    /\ hist[r].keys = None
    /\ \E i \in 1..Len(cachedKeys.list) :
         /\ cachedKeys.list[i].key_identifier = req[r].keyId[1]
         /\ ValidUnder(cachedKeys.list[i], req[r].body, req[r].signature[1])
    /\ hist[q].verifyResult = Some(TRUE)

\* the events of an upstream body: the JSON values of its complete lines of
\* the form 'data: <json>'
RECURSIVE EventsOf(_)
EventsOf(lines) ==
  IF Len(lines) <= 1 THEN <<>>
  ELSE LET l == Head(lines)
       IN  (IF Len(l) = 2 /\ l[1] = DATA /\ l[2].t = "json" /\ l[2].v.kind = "chunk"
            THEN <<l[2].v>> ELSE <<>>) \o EventsOf(Tail(lines))

\* the tool-call fragments of a sequence of events, in arrival order
RECURSIVE FragsOf(_)
FragsOf(events) ==
  IF events = <<>> THEN <<>> ELSE Head(events).tool_calls \o FragsOf(Tail(events))

Fragments(body) == FragsOf(EventsOf(Split(body)))

\* the concatenation, in arrival order, of the id, name and arguments that
\* the fragments of index ix carry
RECURSIVE ConcatId(_, _)
ConcatId(frags, ix) ==
  IF frags = <<>> THEN <<>>
  ELSE (IF Head(frags).index = ix THEN OrEmpty(Head(frags).id) ELSE <<>>)
       \o ConcatId(Tail(frags), ix)

RECURSIVE ConcatName(_, _)
ConcatName(frags, ix) ==
  IF frags = <<>> THEN <<>>
  ELSE (IF Head(frags).index = ix THEN OrEmpty(Head(frags).name) ELSE <<>>)
       \o ConcatName(Tail(frags), ix)

RECURSIVE ConcatArguments(_, _)
ConcatArguments(frags, ix) ==
  IF frags = <<>> THEN <<>>
  ELSE (IF Head(frags).index = ix THEN OrEmpty(Head(frags).arguments) ELSE <<>>)
       \o ConcatArguments(Tail(frags), ix)

\* C2 (tool-call reassembly): for every upstream stream, collectStream returns
\* for each index a tool call whose id, name and arguments are each exactly
\* the concatenation of that index's fragments in arrival order, the fragment
\* that first introduces the index included.
Reassembly ==
  \A r \in Reqs :
    pc[r] = "tool" =>
      LET frags == Fragments(up[r].body)
          m     == coll[r].toolCallMap
      IN  /\ Len(loop[r].toolCalls) = Len(m)
          /\ \A i \in 1..Len(frags) : MapPos(m, frags[i].index, 1) # 0
          /\ \A p \in 1..Len(m) :
               /\ loop[r].toolCalls[p].id = ConcatId(frags, m[p].index)
               /\ loop[r].toolCalls[p].name = ConcatName(frags, m[p].index)
               /\ loop[r].toolCalls[p].arguments = ConcatArguments(frags, m[p].index)

\* C3 (loop termination): whatever the model answers, one run of agentLoop
\* makes at most 5 completion calls and then stops.
LoopTermination ==
  \A r \in Reqs :
    /\ Len(hist[r].calls) <= 5
    /\ loop[r].iteration <= 5
    /\ loop[r].iteration = 5 => pc[r] = "closed" /\ res[r].ended
    /\ pc[r] = "closed" => res[r].ended

\* five cycles that all ended with tool calls, and the loop has stopped
LoopTerminationWitness ==
  \E r \in Reqs :
    /\ Len(hist[r].calls) = 5
    /\ loop[r].iteration = 5
    /\ pc[r] = "closed"

\* positions of the assistant messages of request r's conversation
Assistants(r) ==
  {p \in 1..Len(loop[r].messages) : loop[r].messages[p].role = "assistant"}

\* the cycle of the assistant message at p has appended all its tool messages
CycleComplete(r, p) ==
  ~(pc[r] = "tool" /\ \A q \in Assistants(r) : q <= p)

\* argument parsing or execution fails for this tool call
ToolFails(tc) ==
  \/ ParseArgs(tc.arguments) \in {"SyntaxError", "null"}
  \/ executeTool(tc.name, ParseArgs(tc.arguments)).threw

IsErrorString(content) ==
  /\ content # None
  /\ Len(content[1]) >= 1
  /\ content[1][1] = "Error executing tool "

\* C4 (tool failure isolation): in a cycle whose response assembled k tool
\* calls, each call whose argument parsing or execution fails gets a tool
\* message whose content is an error string, every other call gets its
\* normal result, exactly k tool messages are appended, and the loop goes on
\* to the next cycle (its next completion call carries these messages).
ToolFailureIsolation ==
  \A r \in Reqs :
    \A p \in Assistants(r) :
      LET msgs == loop[r].messages
          tcs  == msgs[p].tool_calls
          k    == Len(tcs)
          n    == IF CycleComplete(r, p) THEN k ELSE loop[r].next - 1
          j    == Cardinality({q \in Assistants(r) : q <= p})
      IN  /\ k >= 1
          /\ Len(msgs) >= p + n
          /\ \A i \in 1..n :
               /\ msgs[p + i].role = "tool"
               /\ msgs[p + i].tool_call_id = Some(tcs[i].id)
               /\ ToolFails(tcs[i]) => IsErrorString(msgs[p + i].content)
               /\ ~ToolFails(tcs[i]) =>
                    msgs[p + i].content =
                      Some(executeTool(tcs[i].name, ParseArgs(tcs[i].arguments)).value)
          /\ IF CycleComplete(r, p)
             THEN /\ Len(msgs) > p + k => msgs[p + k + 1].role = "assistant"
                  /\ loop[r].iteration >= j
                  /\ j < 5 =>
                       /\ Len(hist[r].calls) >= j + 1
                       /\ hist[r].calls[j + 1].messages = SubSeq(msgs, 1, p + k)
             ELSE Len(msgs) = p + n

\* a cycle of three tool calls, one with its normal result and two failing,
\* after which the next completion call has been made
ToolFailureWitness ==
  \E r \in Reqs :
    \E p \in Assistants(r) :
      LET tcs == loop[r].messages[p].tool_calls
      IN  /\ Len(tcs) = 3
          /\ Len(loop[r].messages) >= p + 3
          /\ \E a, b \in 1..3 : ToolFails(tcs[a]) /\ ~ToolFails(tcs[b])
          /\ pc[r] \in {"completion", "reading"}
          /\ loop[r].messages[Len(loop[r].messages)].role = "tool"

\* request r passed the header, signature and body checks
Passed(r) ==
  /\ hist[r].verifyResult = Some(TRUE)
  /\ hist[r].parsed
  /\ ParseBody(req[r].body).ok

\* C5 (frame ordering): for a request that passes the header, signature and
\* body checks the frames written are one ack frame first, then text-delta
\* frames, then one [DONE] frame last, after which the connection is closed:
\* no frame before the ack or after [DONE].
FrameOrdering ==
  \A r \in Reqs :
    LET f == res[r].frames
    IN  /\ Passed(r) => Len(f) >= 1 /\ res[r].sse
        /\ f # <<>> => Passed(r) /\ f[1] = sseAck
        /\ \A i \in 2..Len(f) :
             \/ f[i].f = "text"
             \/ f[i] = sseDone /\ i = Len(f)
        /\ res[r].ended /\ Passed(r) <=> f # <<>> /\ f[Len(f)] = sseDone
        /\ pc[r] = "closed" <=> res[r].ended

\* a closed stream of ack, two text deltas and [DONE]
FrameOrderingWitness ==
  \E r \in Reqs :
    /\ res[r].ended
    /\ Len(res[r].frames) = 4
    /\ res[r].frames[1] = sseAck
    /\ res[r].frames[2].f = "text" /\ res[r].frames[3].f = "text"
    /\ res[r].frames[4] = sseDone
    /\ hist[r].thrown = <<>>

IsNotice(frame) ==
  /\ frame.f = "text"
  /\ Len(frame.content) >= 1
  /\ frame.content[1] = "Extension error: "

\* C6 (post-stream-open failures are in-band): once agentLoop has raised
\* (non-2xx or failed completion call, failed stream read, a record or a
\* payload it cannot handle), exactly one text-delta frame carrying the error
\* notice has been written, followed by [DONE] and the close of the
\* connection; no status code or JSON error body is sent.
FailuresInBand ==
  \A r \in Reqs :
    LET f == res[r].frames
        n == Len(f)
    IN  /\ Len(hist[r].thrown) <= 1
        /\ hist[r].thrown # <<>> =>
             /\ n >= 3
             /\ f[1] = sseAck
             /\ f[n] = sseDone
             /\ f[n - 1] = Notice(hist[r].thrown[1])
             /\ res[r].ended /\ pc[r] = "closed"
             /\ res[r].status = 0 /\ res[r].json = <<>>
        /\ Cardinality({i \in 1..n : IsNotice(f[i])}) = Len(hist[r].thrown)

\* a stream read failed after a text delta had been forwarded
FailuresInBandWitness ==
  \E r \in Reqs :
    /\ hist[r].thrown = <<<<"read failed">>>>
    /\ Len(res[r].frames) = 4
    /\ res[r].ended

\* request r has received its final answer: a 401 or 400 response, or the
\* [DONE] frame followed by the close of the connection
Answered(r) ==
  /\ pc[r] = "closed"
  /\ res[r].ended
  /\ \/ res[r].status \in {400, 401}
     \/ /\ res[r].frames # <<>>
        /\ res[r].frames[Len(res[r].frames)] = sseDone

\* C7 as stated (the channel never hangs): if every key fetch, completion
\* call, stream read and tool execution eventually returns or fails, every
\* request eventually receives a 401/400 response or the [DONE] frame and the
\* close of the connection.
EveryRequestAnswered == \A r \in Reqs : <>Answered(r)

\* C7 as amended: if moreover every upstream response stream reports its end
\* or fails after finitely many reads (no request reads one stream forever),
\* every request eventually receives a 401/400 response or the [DONE] frame
\* and the close of the connection.
AnsweredIfStreamsEnd ==
  (\A r \in Reqs : []<>(pc[r] # "reading")) => (\A r \in Reqs : <>Answered(r))

\* a request answered with [DONE] after a tool cycle and a second response
AnsweredWitness ==
  \E r \in Reqs :
    /\ Answered(r)
    /\ Len(hist[r].calls) >= 2
    /\ res[r].status = 0

\* the call of verifySignature for request r is over
VerifyOver(r) == hist[r].verifyArgs # None /\ pc[r] \notin {"new", "keyfetch"}

\* C11 (verifier fails closed): the promise of verifySignature never rejects;
\* once the call is over it has resolved, and it has resolved to false when
\* the key identifier is unknown in the key set it was given and when an
\* error was raised inside it (failed or non-OK key fetch, key-set response
\* without public_keys, key material the cryptographic check cannot use).
VerifierFailsClosed ==
  \A r \in Reqs :
    /\ ~hist[r].verifyRejected
    /\ VerifyOver(r) =>
         /\ hist[r].verifyResult \in {Some(TRUE), Some(FALSE)}
         /\ hist[r].verifyRaised => hist[r].verifyResult = Some(FALSE)
         /\ hist[r].keys = None => hist[r].verifyResult = Some(FALSE)
         /\ hist[r].keys # None =>
              LET ks == hist[r].keys[1]
              IN  \/ ~ks.defined
                  \/ FindKey(ks.list, req[r].keyId[1], 1) = 0
                  \/ ks.list[FindKey(ks.list, req[r].keyId[1], 1)].key = "notpem"
                  => hist[r].verifyResult = Some(FALSE)

\* one verification resolved to false on a key-set response without
\* public_keys, another on the cache test or the fetch that failed after it
VerifierFailsClosedWitness ==
  \E r, q \in Reqs :
    /\ VerifyOver(r) /\ VerifyOver(q)
    /\ hist[r].verifyRaised
    /\ hist[r].keys # None /\ ~hist[r].keys[1].defined
    /\ hist[r].verifyResult = Some(FALSE)
    /\ hist[q].verifyRaised
    /\ hist[q].keys = None
    /\ hist[q].verifyResult = Some(FALSE)

\* request r calls verifySignature in this step
CallsVerify(r) == hist[r].verifyArgs = None /\ hist'[r].verifyArgs # None

\* C12 as stated (key cache TTL): at most one key fetch is issued for the
\* verifications that fall within one TTL window, whether they are sequential
\* or overlap and whatever the endpoint returns; so when the clock reads now,
\* the verifications made so far fall in 1 + now/TTL windows and at most that
\* many fetches have been issued.
OneFetchPerWindow == keyFetches <= 1 + (now \div TTL)

\* C12 as amended: every call of verifySignature issues at most one key
\* fetch: none when it starts while the cache is within its TTL and does not
\* hold an empty key list, exactly one otherwise (cache expired, never
\* filled, or holding an empty list); nothing else issues a fetch.  A fetch
\* that succeeds replaces the cache and starts a new TTL, a fetch that fails
\* leaves the cache and its expiry as they were.
FetchIffCacheStale ==
  [][/\ \A r \in Reqs :
          /\ CallsVerify(r) =>
               keyFetches' = keyFetches +
                 (IF now' < cacheExpiry
                     /\ (cachedKeys.defined => Len(cachedKeys.list) > 0)
                  THEN 0 ELSE 1)
          /\ pc[r] = "keyfetch" /\ pc'[r] # "keyfetch" =>
               IF hist'[r].keys # None
               THEN /\ cachedKeys' = hist'[r].keys[1]
                    /\ cacheExpiry' = now' + TTL
               ELSE cachedKeys' = cachedKeys /\ cacheExpiry' = cacheExpiry
     /\ (\A r \in Reqs : ~CallsVerify(r)) => keyFetches' = keyFetches
     /\ (\A r \in Reqs : pc[r] = "keyfetch" => pc'[r] = "keyfetch") =>
          cachedKeys' = cachedKeys /\ cacheExpiry' = cacheExpiry]_vars

\* two verifications were given a key set and one fetch was issued: the
\* second was served from the cache within the TTL
FetchWitness ==
  \E r, q \in Reqs :
    /\ r # q
    /\ VerifyOver(r) /\ VerifyOver(q)
    /\ hist[r].keys # None /\ hist[q].keys # None
    /\ keyFetches = 1
    /\ now < cacheExpiry

\* the text-delta frames that a sequence of events calls for, in order
RECURSIVE TextsOf(_)
TextsOf(events) ==
  IF events = <<>> THEN <<>>
  ELSE (IF Truthy(Head(events).content)
        THEN <<sseText(Head(events).content[1])>> ELSE <<>>)
       \o TextsOf(Tail(events))

IsUpstreamText(frame) == frame.f = "text" /\ ~IsNotice(frame)

\* the text-delta frames forwarded to the client since the response that
\* request r is reading, or has read last, arrived
WrittenSince(r) ==
  SelectSeq(SubSeq(res[r].frames, hist[r].mark + 1, Len(res[r].frames)),
            IsUpstreamText)

\* the part of the upstream body that request r has read
Consumed(r) ==
  LET n == Len(up[r].body)
  IN  SubSeq(up[r].body, 1, IF up[r].pos < n THEN up[r].pos ELSE n)

\* C13 (text passthrough ordering): within one upstream response every event
\* that carries text produces one text-delta frame, and the frames appear in
\* the order of the events, none dropped, duplicated or reordered: while the
\* response is being read the frames are those of the events read so far, and
\* once it is over they are those of all its events.
TextPassthrough ==
  \A r \in Reqs :
    up[r].status = 200 =>
      WrittenSince(r) =
        TextsOf(EventsOf(Split(IF pc[r] = "reading" THEN Consumed(r)
                               ELSE up[r].body)))

\* C16 (tolerant record parsing): no record makes collectStream raise; a
\* record that is not JSON or is JSON of an unexpected shape is skipped and
\* the records after it are still processed, so that a response that has
\* been read to its end has forwarded the text of all its events.
TolerantParsing ==
  \A r \in Reqs :
    /\ ~coll[r].threw
    /\ up[r].status = 200 /\ up[r].ending = "done" /\ pc[r] # "reading" =>
         /\ up[r].pos = Len(up[r].body)
         /\ Len(WrittenSince(r)) = Len(TextsOf(EventsOf(Split(up[r].body))))

\* C14 (result order of the collector): the list of tool calls returned by
\* collectStream is ordered by ascending fragment index, for every arrival
\* order of the indices.
AscendingOrder ==
  \A r \in Reqs :
    pc[r] = "tool" =>
      LET m == coll[r].toolCallMap
      IN  /\ loop[r].toolCalls = MapValues(m)
          /\ \A i, j \in 1..Len(m) : i < j => m[i].index < m[j].index

\* C15 (chunk-boundary independence): the text frames written and the tool
\* calls returned for an upstream body are the same for every way of
\* splitting it into read chunks, splits inside a line included: after any
\* sequence of reads the collector has written, accumulated and retained
\* what it would have after one read delivering the same bytes at once.
ChunkIndependence ==
  \A r \in Reqs :
    up[r].status = 200 /\ up[r].ending # "endless" =>
      LET whole == ProcessChunk(CollectInit, Consumed(r))
      IN  /\ WrittenSince(r) = whole.out
          /\ coll[r].threw = whole.threw
          /\ pc[r] = "reading" =>
               /\ coll[r].lineBuffer = whole.lineBuffer
               /\ coll[r].toolCallMap = whole.toolCallMap
          /\ pc[r] = "tool" =>
               /\ up[r].pos = Len(up[r].body)
               /\ loop[r].toolCalls = MapValues(whole.toolCallMap)

\* a read has ended in the middle of a line, after text was forwarded and
\* tool-call fragments were accumulated
ChunkIndependenceWitness ==
  \E r \in Reqs :
    /\ pc[r] = "reading"
    /\ coll[r].lineBuffer # <<>>
    /\ coll[r].toolCallMap # <<>>
    /\ WrittenSince(r) # <<>>

\* the last completion call of request r got a response that is not ok
UpstreamError(r) == up[r].status \notin {0, 200}

\* C17 (upstream error is fatal and not retried): when a completion call
\* returns a non-success status, agentLoop raises one error that carries the
\* status code and the body text; no completion call follows (the failed call
\* stays the last one), and the conversation is still exactly what that call
\* carried: no tool was executed for it and nothing was appended.
UpstreamErrorFatal ==
  \A r \in Reqs :
    UpstreamError(r) =>
      /\ pc[r] = "closed"
      /\ hist[r].thrown =
           <<(<<"Copilot API ", StatusText(up[r].status), ": ">> \o TextOf(up[r].body))>>
      /\ Len(hist[r].calls) = loop[r].iteration + 1
      /\ hist[r].calls[Len(hist[r].calls)].messages = loop[r].messages
      /\ loop[r].toolCalls = <<>>
      /\ Cardinality({p \in 1..Len(loop[r].messages) :
                        loop[r].messages[p].role = "tool"}) >= Len(hist[r].tools)

\* a completion call answered with status 500 after a cycle of tool calls
UpstreamErrorWitness ==
  \E r \in Reqs :
    /\ up[r].status = 500
    /\ Len(hist[r].calls) >= 2
    /\ hist[r].tools # <<>>
    /\ pc[r] = "closed"

\* C18 (conversation shape after a tool cycle): the conversation is the
\* initial messages followed by cycles, each one assistant message carrying
\* tool calls c1..ck followed by k tool messages, the i-th with tool_call_id
\* ci.id (the last cycle may still be running); so every tool message refers
\* to a tool call of the assistant message that precedes it.
ConversationShape ==
  \A r \in Reqs :
    LET msgs == loop[r].messages
    IN  /\ \A p \in 1..Len(msgs) :
             msgs[p].role = "tool" =>
               \E a \in 1..(p - 1) :
                 /\ msgs[a].role = "assistant"
                 /\ \A b \in (a + 1)..p : msgs[b].role = "tool"
                 /\ p - a <= Len(msgs[a].tool_calls)
                 /\ msgs[p].tool_call_id = Some(msgs[a].tool_calls[p - a].id)
        /\ \A a \in Assistants(r) :
             LET k == Len(msgs[a].tool_calls)
             IN  /\ k >= 1
                 /\ msgs[a].content = None
                 /\ CycleComplete(r, a) =>
                      /\ Len(msgs) >= a + k
                      /\ \A b \in (a + 1)..(a + k) : msgs[b].role = "tool"
                      /\ Len(msgs) > a + k => msgs[a + k + 1].role = "assistant"
        /\ msgs # <<>> =>
             /\ SubSeq(msgs, 1, Len(UserMessages)) = UserMessages
             /\ Len(msgs) > Len(UserMessages) =>
                  msgs[Len(UserMessages) + 1].role = "assistant"

\* a conversation of two cycles, one of them with three tool calls
ConversationShapeWitness ==
  \E r \in Reqs :
    /\ Cardinality(Assistants(r)) >= 2
    /\ \E a \in Assistants(r) : Len(loop[r].messages[a].tool_calls) = 3
    /\ pc[r] = "completion"

\* the response that request r has read to its end assembled no tool call
NoToolCalls(r) ==
  /\ up[r].status = 200
  /\ up[r].ending = "done"
  /\ pc[r] # "reading"
  /\ ~coll[r].threw
  /\ coll[r].toolCallMap = <<>>

\* C19 (final-answer branch): when a completion response yields zero tool
\* calls agentLoop ends successfully at once: nothing is raised, that call
\* stays the last completion call, no tool is executed for it, the
\* conversation is what that call carried, and the handler closes the stream.
FinalAnswer ==
  \A r \in Reqs :
    NoToolCalls(r) =>
      /\ pc[r] = "closed"
      /\ hist[r].thrown = <<>>
      /\ Len(hist[r].calls) = loop[r].iteration + 1
      /\ hist[r].calls[Len(hist[r].calls)].messages = loop[r].messages
      /\ loop[r].toolCalls = <<>>
      /\ loop[r].messages[Len(loop[r].messages)].role # "assistant"
      /\ res[r].ended
      /\ res[r].frames[Len(res[r].frames)] = sseDone

\* a final answer in the third cycle, after two cycles of tool calls
FinalAnswerWitness ==
  \E r \in Reqs :
    /\ NoToolCalls(r)
    /\ loop[r].iteration = 2
    /\ WrittenSince(r) # <<>>

Cancellation ==
  [][\A r \in Reqs :
       res[r].destroyed =>
         /\ res'[r].frames = res[r].frames
         /\ pc[r] = "reading" => up'[r].pos = up[r].pos
         /\ hist'[r].calls = hist[r].calls
         /\ hist'[r].tools = hist[r].tools]_vars

\* the cache holds what one successful fetch returned, whole, with the expiry
\* set by a fetch, or it is as it was at start
CacheWhole ==
  \/ cachedKeys = [defined |-> TRUE, list |-> <<>>] /\ cacheExpiry = 0
  \/ /\ \E kr \in env.keys : kr.ok /\ cachedKeys = kr.public_keys
     /\ cacheExpiry \in TTL..(now + TTL)

\* what verifying request q against key set keys alone gives: true when the
\* first key of the set with q's identifier validates q's signature
Alone(keys, q) ==
  /\ keys.defined
  /\ \E i \in 1..Len(keys.list) :
       /\ keys.list[i].key_identifier = q.keyId[1]
       /\ \A j \in 1..(i - 1) : keys.list[j].key_identifier # q.keyId[1]
       /\ keys.list[i].key # "notpem"
       /\ ValidUnder(keys.list[i], q.body, q.signature[1])

\* C22 (concurrent cache refresh is harmless): for every interleaving of
\* overlapping verifications, the cache is always the start value or the whole
\* key set of one successful fetch; the key set and the expiry change only
\* when a fetch returns successfully, both in that one step and to that
\* fetch's key set (last write wins); and the verification that fetched
\* returns what it would return alone against the key set it fetched.
RefreshRaceHarmless ==
  /\ []CacheWhole
  /\ [][/\ \A r \in Reqs :
            pc[r] = "keyfetch" /\ pc'[r] # "keyfetch" /\ hist'[r].keys # None =>
              /\ cachedKeys' = hist'[r].keys[1]
              /\ cacheExpiry' = now' + TTL
              /\ hist'[r].verifyResult = Some(Alone(hist'[r].keys[1], req[r]))
        /\ (cachedKeys' # cachedKeys \/ cacheExpiry' # cacheExpiry) =>
              \E r \in Reqs :
                pc[r] = "keyfetch" /\ pc'[r] # "keyfetch" /\ hist'[r].keys # None]_vars

\* two verifications overlapped at time 0 and fetched different key sets: one
\* fetched the platform's key and returned true, the other fetched an empty
\* list, wrote the cache last and returned false
RefreshRaceWitness ==
  \E r, q \in Reqs :
    /\ VerifyOver(r) /\ VerifyOver(q)
    /\ now = 0
    /\ keyFetches = 2
    /\ hist[r].keys = Some(GoodKeys.public_keys)
    /\ hist[q].keys = Some(EmptyKeys.public_keys)
    /\ cachedKeys = EmptyKeys.public_keys
    /\ hist[r].verifyResult = Some(TRUE)
    /\ hist[q].verifyResult = Some(FALSE)

\* everything the handler keeps for request r
Own(r) == <<req[r], pc[r], isValid[r], res[r], loop[r], coll[r], up[r], hist[r]>>

\* C23 (request isolation): every completion call made for a request carries
\* that request's own token as the bearer token and a prefix of that
\* request's own conversation, which starts with the messages of its own
\* payload; and every step changes the state of at most one request, so that
\* nothing but the key cache passes from one request to another.
RequestIsolation ==
  /\ [](\A r \in Reqs :
          \A i \in 1..Len(hist[r].calls) :
            LET c == hist[r].calls[i]
                own == PayloadMessages(req[r].body)
            IN  /\ c.bearer = req[r].token
                /\ Len(c.messages) <= Len(loop[r].messages)
                /\ c.messages = SubSeq(loop[r].messages, 1, Len(c.messages))
                /\ SubSeq(c.messages, 1, Len(own)) = own
                /\ \A p \in (Len(own) + 1)..Len(c.messages) :
                     c.messages[p].role \in {"assistant", "tool"})
  /\ [][\E r \in Reqs : \A q \in Reqs \ {r} : Own(q)' = Own(q)]_vars

\* two requests with different tokens are in the middle of their loops, each
\* with a second completion call made
RequestIsolationWitness ==
  \E r, q \in Reqs :
    /\ req[r].token # req[q].token
    /\ Len(hist[r].calls) >= 2 /\ Len(hist[q].calls) >= 2
    /\ pc[r] = "reading" /\ pc[q] = "tool"

\* C24 (the tool dispatcher never throws): every invocation of executeTool,
\* whatever the tool name and the argument mapping, resolves to a string; for
\* a name that is not a tool the string is an 'Unknown skill' text.
DispatcherNeverThrows ==
  \A r \in Reqs :
    \A i \in 1..Len(hist[r].tools) :
      LET t == hist[r].tools[i]
          x == executeTool(t.name, t.args)
      IN  /\ ~x.threw
          /\ t.name \notin {NEXT_FLYWAY_VERSION, GET_REFERENCE} =>
               x.value[1] = "Unknown skill: "

\* the line is an end-marker record
IsDoneRecord(line) == line # <<>> /\ line[1] = DATA /\ Trim(Tail(line)) = <<DONEMARK>>

\* the lines that the read taking request r from position pos to position
\* pos2 of its upstream body completes
CompletedLines(r, pos2) ==
  LET lines == Split(coll[r].lineBuffer \o SubSeq(up[r].body, up[r].pos + 1, pos2))
  IN  SubSeq(lines, 1, Len(lines) - 1)

\* C25 (end-marker handling): a read that completes only 'data: [DONE]'
\* records writes no frame, leaves the tool-call map as it is and does not
\* end the collection; collectStream returns only when the stream reports
\* its end, so a response that was collected has been read to its last byte,
\* the text of the events after the marker has been forwarded and their
\* tool-call fragments have been merged.
EndMarkerIgnored ==
  /\ [](\A r \in Reqs :
          (up[r].status = 200 /\ up[r].ending = "done" /\ pc[r] # "reading"
             /\ ~coll[r].threw) =>
            /\ up[r].pos = Len(up[r].body)
            /\ WrittenSince(r) = TextsOf(EventsOf(Split(up[r].body)))
            /\ coll[r].toolCallMap = MergeFrags(<<>>, Fragments(up[r].body)))
  /\ [][\A r \in Reqs :
         (/\ pc[r] = "reading"
          /\ up[r].ending # "endless"
          /\ up'[r].pos > up[r].pos
          /\ CompletedLines(r, up'[r].pos) # <<>>
          /\ \A i \in 1..Len(CompletedLines(r, up'[r].pos)) :
               IsDoneRecord(CompletedLines(r, up'[r].pos)[i])) =>
           /\ res'[r].frames = res[r].frames
           /\ coll'[r].toolCallMap = coll[r].toolCallMap
           /\ pc'[r] = "reading"]_vars

\* a response whose end marker came before the rest of a tool call and a
\* text delta has been collected
EndMarkerWitness ==
  \E r \in Reqs :
    /\ pc[r] = "tool"
    /\ up[r].body = RespDoneEarly.body
    /\ WrittenSince(r) = <<sseText(<<"b">>)>>
    /\ loop[r].toolCalls # <<>>
    /\ loop[r].toolCalls[1].arguments = <<"{", "k", "}">>

\* the text after the last newline of a body
LastPiece(body) == Split(body)[Len(Split(body))]

\* C26 (a record counts only once its newline has been read): while a
\* response is being read, the frames written and the tool-call map are those
\* of the lines whose newline has been read and the rest is in the line
\* buffer; when the stream ends, what is left in the line buffer (a last
\* record without newline) has not been parsed: no frame was written for it
\* and no fragment of it is in the tool calls returned.
UnterminatedDiscarded ==
  \A r \in Reqs :
    (up[r].status = 200 /\ up[r].ending = "done" /\ ~coll[r].threw) =>
      LET read == IF pc[r] = "reading" THEN Consumed(r) ELSE up[r].body
      IN  /\ pc[r] # "reading" => up[r].pos = Len(up[r].body)
          /\ coll[r].lineBuffer = LastPiece(read)
          /\ WrittenSince(r) = TextsOf(EventsOf(Split(read)))
          /\ coll[r].toolCallMap = MergeFrags(<<>>, Fragments(read))
          /\ pc[r] = "tool" => loop[r].toolCalls = MapValues(coll[r].toolCallMap)

\* a response has been collected whose last record, text and a tool-call
\* fragment without a newline, is still in the line buffer
UnterminatedWitness ==
  \E r \in Reqs :
    /\ pc[r] = "tool"
    /\ up[r].body = RespCutShort.body
    /\ Len(coll[r].lineBuffer) = 2
    /\ WrittenSince(r) = <<sseText(<<"a">>)>>
    /\ loop[r].toolCalls[1].arguments = <<"{", "k", "}">>

\* the tool messages of request r's conversation, each with its tool call
ToolResults(r) ==
  LET msgs == loop[r].messages
  IN  {<<p, a>> \in (1..Len(msgs)) \X (1..Len(msgs)) :
         /\ msgs[p].role = "tool"
         /\ a < p
         /\ msgs[a].role = "assistant"
         /\ \A b \in (a + 1)..p : msgs[b].role = "tool"}

\* the argument string is not JSON text
Unparseable(arguments) == ParseArgs(arguments) = "SyntaxError"

\* C27 (dispatch only when the arguments parse): executeTool is never invoked
\* for a tool call whose argument string is not valid JSON, the empty string
\* included; such a call gets a tool message whose content is an error string.
\* So no invocation has unparsed arguments, and there are no more invocations
\* than tool calls answered whose arguments parse.
DispatchOnlyParsed ==
  \A r \in Reqs :
    LET msgs == loop[r].messages
    IN  /\ \A i \in 1..Len(hist[r].tools) : hist[r].tools[i].args # "SyntaxError"
        /\ \A pa \in ToolResults(r) :
             Unparseable(msgs[pa[2]].tool_calls[pa[1] - pa[2]].arguments) =>
               /\ IsErrorString(msgs[pa[1]].content)
               /\ msgs[pa[1]].content[1][Len(msgs[pa[1]].content[1])] = ": SyntaxError"
        /\ Len(hist[r].tools) <=
             Cardinality({pa \in ToolResults(r) :
                            ~Unparseable(msgs[pa[2]].tool_calls[pa[1] - pa[2]].arguments)})

\* a call without any argument text and a call whose arguments were cut
\* short have been answered with error strings
DispatchWitness ==
  \E r \in Reqs :
    \E pa, pb \in ToolResults(r) :
      /\ loop[r].messages[pa[2]].tool_calls[pa[1] - pa[2]].arguments = <<>>
      /\ loop[r].messages[pb[2]].tool_calls[pb[1] - pb[2]].arguments = <<"{">>
      /\ IsErrorString(loop[r].messages[pa[1]].content)
      /\ IsErrorString(loop[r].messages[pb[1]].content)
      /\ hist[r].tools # <<>>

\* the texts that have been forwarded to the client of request r
Forwarded(r) ==
  {res[r].frames[i].content : i \in {j \in 1..Len(res[r].frames) :
                                       IsUpstreamText(res[r].frames[j])}}

\* C28 (text of a tool-calling response): when a response that carries tool
\* calls has been collected, the text of each of its content deltas has been
\* forwarded to the client, in order; the assistant message appended for the
\* cycle has content null; and no message of any completion call has a
\* forwarded text as its content.
TextNotInConversation ==
  \A r \in Reqs :
    /\ pc[r] = "tool" =>
         /\ WrittenSince(r) = TextsOf(EventsOf(Split(up[r].body)))
         /\ loop[r].messages[Len(loop[r].messages) - loop[r].next + 1]
              = Msg("assistant", None, loop[r].toolCalls, None)
    /\ \A a \in Assistants(r) : loop[r].messages[a].content = None
    /\ \A i \in 1..Len(hist[r].calls) :
         \A p \in 1..Len(hist[r].calls[i].messages) :
           LET m == hist[r].calls[i].messages[p]
           IN  /\ m.role = "assistant" => m.content = None
               /\ m.content # None => m.content[1] \notin Forwarded(r)

\* a response with three tool calls and text was collected, its text was
\* forwarded, and the next completion call has been made
TextNotInConversationWitness ==
  \E r \in Reqs :
    /\ Len(hist[r].calls) >= 2
    /\ <<"a">> \in Forwarded(r)
    /\ \E p \in 1..Len(hist[r].calls[2].messages) :
         /\ hist[r].calls[2].messages[p].role = "assistant"
         /\ Len(hist[r].calls[2].messages[p].tool_calls) = 3

\* the key fetch of request r returns in this step, and it has failed
FetchFails(r) == pc[r] = "keyfetch" /\ pc'[r] # "keyfetch" /\ hist'[r].keys = None

\* C29 (a failed key refresh): when the key fetch of a verification fails,
\* the cached key set and its expiry stay as they were and the verification
\* returns false, also when the cached key set holds a key that validates the
\* request; the failure is not remembered: a verification that starts while
\* the cache is expired issues a fetch.
FailedRefresh ==
  [][\A r \in Reqs :
       /\ FetchFails(r) =>
            /\ cachedKeys' = cachedKeys
            /\ cacheExpiry' = cacheExpiry
            /\ hist'[r].verifyResult = Some(FALSE)
            /\ ~Processed(r)'
       /\ CallsVerify(r) /\ now' >= cacheExpiry =>
            /\ pc'[r] = "keyfetch"
            /\ keyFetches' = keyFetches + 1]_vars

\* the refresh of an expired cache failed for one verification, which
\* returned false although the cached key validates its request; the cache
\* is as it was, and the other verification fetched again and succeeded
FailedRefreshWitness ==
  \E r, q \in Reqs :
    /\ hist[r].verifyResult = Some(FALSE)
    /\ hist[r].keys = None
    /\ Alone(cachedKeys, req[r])
    /\ hist[q].verifyResult = Some(TRUE)
    /\ hist[q].keys # None
    /\ keyFetches = 3

====
